---- MODULE Spec2Model ----
(***************************************************************************)
(* Model of sc_array.h, the macro-generated growable array of the sc       *)
(* library.  One action per macro; the allocator (realloc/free) and the    *)
(* configuration macro SC_ARRAY_MAX are part of the state.                 *)
(***************************************************************************)
EXTENDS Integers, Naturals, Sequences, FiniteSets, TLC

VARIABLES
    oom,        \* struct field: bool oom
    cap,        \* struct field: size_t cap
    size,       \* struct field: size_t size
    elems,      \* struct field: T *elems (NULL or the id of a heap block)
    buf,        \* contents of the block elems points to, one entry per slot
    live,       \* allocator: ids of the blocks that are allocated and not freed
    crashed,    \* the process was stopped by a fault (NULL or out-of-block access)
    dfree,      \* allocator: free() was handed a block that is not live
    array_max,  \* the value the build gives to SC_ARRAY_MAX
    esize,      \* sizeof(*(a)->elems) of the element type the build uses
    heap_limit, \* largest request in bytes the allocator can satisfy
    last,       \* the operation executed last, its argument and its result
    lastAdd,    \* outcome of the most recent sc_array_add since init/clear/term
    hist,       \* appends made to a fresh array while only appends were made
    twin        \* a freshly initialised array given the same appends after a clear

vars == <<oom, cap, size, elems, buf, live, crashed, dfree, array_max,
          esize, heap_limit, last, lastAdd, hist, twin>>

(***************************************************************************)
(* Bounds of the model.                                                    *)
(***************************************************************************)
SizeBits == 6          \* width of size_t in the model
MaxVal == 1            \* elements are 0..MaxVal
NBlocks == 2           \* block ids the allocator hands out
MaxLen == 5            \* most elements the caller of Spec holds at a time
HeapBytes == 12        \* heap_limit of the small machine (one growth step)
GrowHeapBytes == 40    \* heap_limit of the large machine (three growth steps)
LowArrayMax == 12      \* a build with a small SC_ARRAY_MAX
WideElemSize == 16     \* sizeof of a wide element type, above SIZE_MAX / 8

(***************************************************************************)
(* Program constants.                                                      *)
(***************************************************************************)
ElemSize == esize      \* sizeof(*(a)->elems)
InitialCap == 8        \* first capacity
NULL == 0

SIZE_MAX == 2^SizeBits - 1
Wrap(x) == x % (2^SizeBits)
Values == 0..MaxVal
Blocks == 1..NBlocks
U == -1                \* an indeterminate (never written) slot
Comparators == {"asc", "desc"}

----------------------------------------------------------------------------
(* The array and its heap as one value, so that the same code can be run   *)
(* on the array under test and on its twin.                                *)
World == [oom |-> oom, cap |-> cap, size |-> size, elems |-> elems,
          buf |-> buf, live |-> live, crashed |-> crashed]

Fresh(lv) == [oom |-> FALSE, cap |-> 0, size |-> 0, elems |-> NULL,
              buf |-> <<>>, live |-> lv, crashed |-> FALSE]

NoLast == [op |-> "init", ok |-> TRUE, req |-> 0, out |-> <<>>]
Did(op, ok, req, out) ==
    [op |-> op, ok |-> ok, req |-> req, out |-> out]

HistOff == [on |-> FALSE, adds |-> <<>>, resizes |-> 0, caps |-> <<>>]
HistNew == [on |-> TRUE, adds |-> <<>>, resizes |-> 0, caps |-> <<0>>]

TwinOff == [on |-> FALSE, w |-> Fresh({}), req |-> 0]

----------------------------------------------------------------------------
(* realloc: a block resized to n slots keeps its first min(old, n) slots,  *)
(* the others are indeterminate.                                           *)
Resize(b, n) == [j \in 1..n |-> IF j <= Len(b) THEN b[j] ELSE U]

(* The outcomes realloc(p, nbytes) can have: NULL, the same block resized  *)
(* in place, or a different block q (p is then freed).                     *)
ReallocOutcome(lv, p, nbytes, res, q) ==
    \/ res = "fail" /\ q = NULL
    \/ res = "inplace" /\ p # NULL /\ q = p /\ nbytes <= heap_limit
    \/ res = "move" /\ q \in Blocks \ lv /\ nbytes <= heap_limit
                    /\ \A b \in Blocks \ lv : q <= b

(* sc_array_add on world w; res and q are the outcome of realloc when it   *)
(* is called.  The result carries the slots requested (req) and whether    *)
(* the element was stored (ok).                                            *)
NeedsRealloc(w) ==
    /\ w.cap = w.size
    /\ ~(w.cap > (array_max \div ElemSize) \div 2)

(* Variant: a failed add that gives the capacity up. *)
AddFail_DropsCap(w, req) ==
    [w |-> [w EXCEPT !.oom = TRUE, !.cap = 0], ok |-> FALSE, req |-> req]

AddFail(w, req) ==
    [w |-> [w EXCEPT !.oom = TRUE], ok |-> FALSE, req |-> req]

(* Variant: a store that leaves the flag as it was. *)
AddStore_KeepsFlag(w, k, req) ==
    [w |-> [w EXCEPT !.buf = [w.buf EXCEPT ![w.size + 1] = k],
                     !.size = Wrap(w.size + 1)],
     ok |-> TRUE, req |-> req]

AddStore(w, k, req) ==
    IF w.size < Len(w.buf)
    THEN [w |-> [w EXCEPT !.oom = FALSE,
                          !.buf = [w.buf EXCEPT ![w.size + 1] = k],
                          !.size = Wrap(w.size + 1)],
          ok |-> TRUE, req |-> req]
    ELSE [w |-> [w EXCEPT !.oom = FALSE, !.crashed = TRUE],
          ok |-> TRUE, req |-> req]

(* Variants of sc_array_add: one records the new capacity before the      *)
(* result of realloc is tested, one grows by a fixed step, one by half.    *)
AddOpWith(w, k, res, q, _cap, early) ==
    LET _max == array_max \div ElemSize
        nslots == Wrap(_cap * ElemSize) \div ElemSize
    IN  IF w.cap = w.size
        THEN IF w.cap > _max \div 2
             THEN AddFail(w, 0)
             ELSE IF res = "fail"
                  THEN AddFail(IF early THEN [w EXCEPT !.cap = _cap] ELSE w, nslots)
                  ELSE AddStore([w EXCEPT !.cap = _cap,
                                          !.elems = q,
                                          !.buf = Resize(w.buf, nslots),
                                          !.live = (w.live \ {w.elems}) \cup {q}],
                                k, nslots)
        ELSE AddStore(w, k, 0)

AddOp_CapBeforeCheck(w, k, res, q) ==
    AddOpWith(w, k, res, q, IF w.cap = 0 THEN InitialCap ELSE Wrap(w.cap * 2), TRUE)

AddOp_GrowByStep(w, k, res, q) ==
    AddOpWith(w, k, res, q, Wrap(w.cap + InitialCap), FALSE)

AddOp_GrowByHalf(w, k, res, q) ==
    AddOpWith(w, k, res, q,
              IF w.cap = 0 THEN InitialCap ELSE Wrap(w.cap + w.cap \div 2), FALSE)

(* Variant: growth by one slot. *)
AddOp_GrowByOne(w, k, res, q) ==
    AddOpWith(w, k, res, q, IF w.cap = 0 THEN InitialCap ELSE Wrap(w.cap + 1), FALSE)

(* Variant: a realloc that moves the data and leaves the old block live. *)
AddOp_LeaksOnMove(w, k, res, q) ==
    LET _max == array_max \div ElemSize
        _cap == IF w.cap = 0 THEN InitialCap ELSE Wrap(w.cap * 2)
        nslots == Wrap(_cap * ElemSize) \div ElemSize
    IN  IF w.cap = w.size
        THEN IF w.cap > _max \div 2
             THEN AddFail(w, 0)
             ELSE IF res = "fail"
                  THEN AddFail(w, nslots)
                  ELSE AddStore([w EXCEPT !.cap = _cap,
                                          !.elems = q,
                                          !.buf = Resize(w.buf, nslots),
                                          !.live = w.live \cup {q}],
                                k, nslots)
        ELSE AddStore(w, k, 0)

AddOp(w, k, res, q) ==
    LET _max == array_max \div ElemSize
        _cap == IF w.cap = 0 THEN InitialCap ELSE Wrap(w.cap * 2)
        nbytes == Wrap(_cap * ElemSize)
        nslots == nbytes \div ElemSize
    IN  IF w.cap = w.size
        THEN IF w.cap > _max \div 2
             THEN AddFail(w, 0)
             ELSE IF res = "fail"
                  THEN AddFail(w, nslots)
                  ELSE AddStore([w EXCEPT !.cap = _cap,
                                          !.elems = q,
                                          !.buf = Resize(w.buf, nslots),
                                          !.live = (w.live \ {w.elems}) \cup {q}],
                                k, nslots)
        ELSE AddStore(w, k, 0)

(* The bytes realloc is asked for by an add that grows world w. *)
AddBytes(w) ==
    Wrap((IF w.cap = 0 THEN InitialCap ELSE Wrap(w.cap * 2)) * ElemSize)

----------------------------------------------------------------------------
(* The expression macros: they read the array and change nothing. *)
sc_array_oom(w) == w.oom
sc_array_size(w) == w.size
sc_array_at(w, i) == w.buf[i + 1]
sc_array_last(w) == w.buf[(w.size - 1) + 1]

(* Variant: memmove of one slot too few. *)
MoveDown_OneShort(b, i, cnt) ==
    [j \in 1..Len(b) |-> IF j >= i + 1 /\ j <= i + cnt - 1 THEN b[j + 1] ELSE b[j]]

(* memmove of cnt slots from slot i+1 to slot i (0-based slots). *)
MoveDown(b, i, cnt) ==
    [j \in 1..Len(b) |-> IF j >= i + 1 /\ j <= i + cnt THEN b[j + 1] ELSE b[j]]

(* Variant: a loop that stops one element early. *)
RECURSIVE ForeachLoop_StopsEarly(_, _, _, _)
ForeachLoop_StopsEarly(w, _k, _i, acc) ==
    IF _k # 0 /\ _i + 1 < w.size
    THEN ForeachLoop_StopsEarly(w, 1, _i + 1, Append(acc, w.buf[_i + 1]))
    ELSE acc

(* The loop of sc_array_foreach with a body that does not leave the loop:  *)
(* _k and _i are the loop variables, acc the elements handed to the body.  *)
RECURSIVE ForeachLoop(_, _, _, _)
ForeachLoop(w, _k, _i, acc) ==
    IF _k # 0 /\ _i # w.size
    THEN ForeachLoop(w, 1, _i + 1, Append(acc, w.buf[_i + 1]))
    ELSE acc

(* A three-way comparator on elements. *)
Cmp(cmp, x, y) ==
    IF x = y THEN 0
    ELSE IF (cmp = "asc") = (x < y) THEN -1 ELSE 1

(* qsort(base, nmemb, width, cmp) on a block: the first nmemb units of     *)
(* width slots are reordered; cmp reads the element at the start of a unit.*)
Unit(b, w, n) == [j \in 1..w |-> b[(n - 1) * w + j]]

RECURSIVE InsertUnit(_, _, _)
InsertUnit(sorted, u, cmp) ==
    IF sorted = <<>> THEN <<u>>
    ELSE IF Len(u) > 0 /\ Cmp(cmp, u[1], Head(sorted)[1]) < 0
         THEN <<u>> \o sorted
         ELSE <<Head(sorted)>> \o InsertUnit(Tail(sorted), u, cmp)

RECURSIVE SortUnits(_, _, _, _)
SortUnits(b, w, n, cmp) ==
    IF n = 0 THEN <<>>
    ELSE InsertUnit(SortUnits(b, w, n - 1, cmp), Unit(b, w, n), cmp)

RECURSIVE Flatten(_)
Flatten(us) == IF us = <<>> THEN <<>> ELSE Head(us) \o Flatten(Tail(us))

qsort(b, nmemb, w, cmp) ==
    LET sorted == Flatten(SortUnits(b, w, nmemb, cmp))
    IN  [j \in 1..Len(b) |-> IF j <= nmemb * w THEN sorted[j] ELSE b[j]]

----------------------------------------------------------------------------
(* What an operation other than add does to the history variables. *)
Reads == {"foreach"}

Track(op) ==
    /\ lastAdd' = IF op \in {"init", "term", "clear"} THEN "none" ELSE lastAdd
    /\ hist' = IF op \in {"init", "term"} THEN HistNew
               ELSE IF op \in Reads THEN hist ELSE HistOff
    /\ twin' = IF op = "clear" THEN [on |-> TRUE, w |-> Fresh({}), req |-> 0]
               ELSE IF op \in Reads THEN twin ELSE TwinOff

Config == UNCHANGED <<array_max, esize, heap_limit>>

----------------------------------------------------------------------------
sc_array_init_KeepsElems ==
    /\ ~crashed
    /\ oom' = FALSE /\ cap' = 0 /\ size' = 0
    /\ last' = Did("init", TRUE, 0, <<>>)
    /\ Track("init")
    /\ Config /\ UNCHANGED <<elems, buf, live, crashed, dfree>>

sc_array_init ==
    /\ ~crashed
    /\ oom' = FALSE /\ cap' = 0 /\ size' = 0 /\ elems' = NULL
    /\ buf' = <<>>
    /\ last' = Did("init", TRUE, 0, <<>>)
    /\ Track("init")
    /\ Config /\ UNCHANGED <<live, crashed, dfree>>

sc_array_term_FreeOnly ==
    /\ ~crashed
    /\ live' = live \ {elems}
    /\ dfree' = (dfree \/ (elems # NULL /\ elems \notin live))
    /\ last' = Did("term", TRUE, 0, <<>>)
    /\ Track("term")
    /\ Config /\ UNCHANGED <<oom, cap, size, elems, buf, crashed>>

sc_array_term ==
    /\ ~crashed
    /\ live' = live \ {elems}
    /\ dfree' = (dfree \/ (elems # NULL /\ elems \notin live))
    /\ oom' = FALSE /\ cap' = 0 /\ size' = 0 /\ elems' = NULL
    /\ buf' = <<>>
    /\ last' = Did("term", TRUE, 0, <<>>)
    /\ Track("term")
    /\ Config /\ UNCHANGED crashed

TwinAdd(k, res) ==
    IF ~twin.on THEN twin
    ELSE LET t == twin.w
             q == IF t.elems # NULL THEN t.elems ELSE 1
             tres == IF res = "fail" \/ AddBytes(t) > heap_limit
                     THEN "fail" ELSE "move"
             r == AddOp(t, k, tres, q)
         IN  [on |-> TRUE, w |-> r.w, req |-> r.req]

HistAdd(k, r) ==
    IF ~hist.on \/ ~r.ok THEN hist
    ELSE [on |-> TRUE,
          adds |-> Append(hist.adds, k),
          resizes |-> hist.resizes + (IF r.req # 0 THEN 1 ELSE 0),
          caps |-> IF r.req # 0 THEN Append(hist.caps, r.w.cap) ELSE hist.caps]

sc_array_add(k) ==
    /\ ~crashed
    /\ \E res \in {"none", "fail", "inplace", "move"}, q \in Blocks \cup {NULL} :
         /\ IF NeedsRealloc(World)
            THEN ReallocOutcome(live, elems, AddBytes(World), res, q)
            ELSE res = "none" /\ q = NULL
         /\ LET r == AddOp(World, k, res, q)
            IN  /\ oom' = r.w.oom /\ cap' = r.w.cap /\ size' = r.w.size
                /\ elems' = r.w.elems /\ buf' = r.w.buf /\ live' = r.w.live
                /\ crashed' = r.w.crashed
                /\ last' = Did("add", r.ok, r.req, <<>>)
                /\ lastAdd' = IF r.ok THEN "ok" ELSE "fail"
                /\ hist' = HistAdd(k, r)
                /\ twin' = TwinAdd(k, res)
    /\ Config /\ UNCHANGED dfree

(* Variants of sc_array_clear: one forgets size, one forgets cap. *)
sc_array_clear_KeepsSize ==
    /\ ~crashed
    /\ cap' = 0 /\ oom' = FALSE
    /\ last' = Did("clear", TRUE, 0, <<>>)
    /\ Track("clear")
    /\ Config /\ UNCHANGED <<size, elems, buf, live, crashed, dfree>>

sc_array_clear_KeepsCap ==
    /\ ~crashed
    /\ size' = 0 /\ oom' = FALSE
    /\ last' = Did("clear", TRUE, 0, <<>>)
    /\ Track("clear")
    /\ Config /\ UNCHANGED <<cap, elems, buf, live, crashed, dfree>>

sc_array_clear ==
    /\ ~crashed
    /\ cap' = 0 /\ size' = 0 /\ oom' = FALSE
    /\ last' = Did("clear", TRUE, 0, <<>>)
    /\ Track("clear")
    /\ Config /\ UNCHANGED <<elems, buf, live, crashed, dfree>>

(* Variant: a delete that also resets the flag. *)
sc_array_del_ClearsFlag(i) ==
    /\ ~crashed
    /\ i < size
    /\ LET _cnt == size - i - 1
       IN  buf' = IF _cnt > 0 THEN MoveDown(buf, i, _cnt) ELSE buf
    /\ size' = size - 1
    /\ oom' = FALSE
    /\ last' = Did("del", TRUE, 0, <<>>)
    /\ Track("del")
    /\ Config /\ UNCHANGED <<cap, elems, live, crashed, dfree>>

sc_array_del(i) ==
    /\ ~crashed
    /\ i < size
    /\ LET _cnt == size - i - 1
       IN  buf' = IF _cnt > 0 THEN MoveDown(buf, i, _cnt) ELSE buf
    /\ size' = size - 1
    /\ last' = Did("del", TRUE, 0, <<>>)
    /\ Track("del")
    /\ Config /\ UNCHANGED <<oom, cap, elems, live, crashed, dfree>>

(* Variant: the slot is filled from elems[size], read before the decrement. *)
sc_array_del_unordered_ReadsPast(i) ==
    /\ ~crashed
    /\ i < size
    /\ size' = size - 1
    /\ buf' = [buf EXCEPT ![i + 1] = buf[size + 1]]
    /\ last' = Did("del_unordered", TRUE, 0, <<>>)
    /\ Track("del_unordered")
    /\ Config /\ UNCHANGED <<oom, cap, elems, live, crashed, dfree>>

sc_array_del_unordered(i) ==
    /\ ~crashed
    /\ i < size
    /\ size' = size - 1
    /\ buf' = [buf EXCEPT ![i + 1] = buf[(size - 1) + 1]]
    /\ last' = Did("del_unordered", TRUE, 0, <<>>)
    /\ Track("del_unordered")
    /\ Config /\ UNCHANGED <<oom, cap, elems, live, crashed, dfree>>

sc_array_del_last_Shrinks ==
    /\ ~crashed
    /\ size # 0
    /\ size' = size - 1
    /\ cap' = size - 1
    /\ last' = Did("del_last", TRUE, 0, <<>>)
    /\ Track("del_last")
    /\ Config /\ UNCHANGED <<oom, elems, buf, live, crashed, dfree>>

sc_array_del_last_Scrubs ==
    /\ ~crashed
    /\ size # 0
    /\ size' = size - 1
    /\ buf' = [buf EXCEPT ![size] = 0]
    /\ last' = Did("del_last", TRUE, 0, <<>>)
    /\ Track("del_last")
    /\ Config /\ UNCHANGED <<oom, cap, elems, live, crashed, dfree>>

sc_array_del_last ==
    /\ ~crashed
    /\ size # 0
    /\ size' = size - 1
    /\ last' = Did("del_last", TRUE, 0, <<>>)
    /\ Track("del_last")
    /\ Config /\ UNCHANGED <<oom, cap, elems, buf, live, crashed, dfree>>

(* qsort is handed *(a)->elems, the value of the first element, as the     *)
(* width of one unit.  Reading it through a NULL elems, or sorting units   *)
(* that reach past the end of the block, is a fault.                       *)
sc_array_sort(cmp) ==
    /\ ~crashed
    /\ IF elems = NULL
       THEN crashed' = TRUE /\ buf' = buf
       ELSE LET width == Wrap(buf[1] * 1)
            IN  IF size = 0 \/ width = 0
                THEN crashed' = crashed /\ buf' = buf
                ELSE IF size * width > Len(buf)
                     THEN crashed' = TRUE /\ buf' = buf
                     ELSE crashed' = crashed /\ buf' = qsort(buf, size, width, cmp)
    /\ last' = Did("sort", TRUE, 0, <<>>)
    /\ Track("sort")
    /\ Config /\ UNCHANGED <<oom, cap, size, elems, live, dfree>>

sc_array_foreach ==
    /\ ~crashed
    /\ last' = Did("foreach", TRUE, 0, ForeachLoop(World, 1, 0, <<>>))
    /\ Track("foreach")
    /\ Config /\ UNCHANGED <<oom, cap, size, elems, buf, live, crashed, dfree>>

----------------------------------------------------------------------------
(* The state sc_array_init leaves, before anything was allocated. *)
Start ==
    /\ oom = FALSE /\ cap = 0 /\ size = 0 /\ elems = NULL
    /\ buf = <<>> /\ live = {} /\ crashed = FALSE /\ dfree = FALSE
    /\ last = NoLast /\ lastAdd = "none" /\ hist = HistNew /\ twin = TwinOff

Others ==
    \/ sc_array_term
    \/ sc_array_clear
    \/ sc_array_del_last
    \/ sc_array_foreach
    \/ \E i \in 0..SIZE_MAX : i < size /\ sc_array_del(i)
    \/ \E i \in 0..SIZE_MAX : i < size /\ sc_array_del_unordered(i)

(* A caller that stores any values, never holds more than MaxLen elements, *)
(* does not sort and initialises the array once, on the default build.     *)
Init ==
    /\ Start
    /\ esize = 1
    /\ array_max = SIZE_MAX
    /\ heap_limit = HeapBytes

Next ==
    \/ \E k \in Values : size < MaxLen /\ sc_array_add(k)
    \/ Others

Spec == Init /\ [][Next]_vars

(* A caller that appends without limit, always the value 1, and may sort   *)
(* and initialise the array again at any time, on a build with a small or  *)
(* the default SC_ARRAY_MAX and a machine whose allocator can serve three  *)
(* growth steps.                                                           *)
InitGrow ==
    /\ Start
    /\ esize = 1
    /\ array_max \in {LowArrayMax, SIZE_MAX}
    /\ heap_limit = GrowHeapBytes

NextGrow ==
    \/ sc_array_add(1)
    \/ sc_array_init
    \/ \E cmp \in Comparators : sc_array_sort(cmp)
    \/ Others

SpecGrow == InitGrow /\ [][NextGrow]_vars

(* Every build of a one-byte element type: each SC_ARRAY_MAX a build can   *)
(* configure.  The caller appends, pops, clears and terminates.            *)
InitBuild ==
    /\ Start
    /\ esize = 1
    /\ array_max \in 0..SIZE_MAX
    /\ heap_limit = GrowHeapBytes

NextBuild ==
    \/ sc_array_add(1)
    \/ sc_array_clear
    \/ sc_array_term
    \/ sc_array_del_last

SpecBuild == InitBuild /\ [][NextBuild]_vars

(* The default SC_ARRAY_MAX, with a one-byte element type and with one     *)
(* wider than SIZE_MAX / 8.                                                *)
InitWide ==
    /\ Start
    /\ esize \in {1, WideElemSize}
    /\ array_max = SIZE_MAX
    /\ heap_limit = GrowHeapBytes

SpecWide == InitWide /\ [][NextBuild]_vars

(* A caller that only appends to a freshly initialised array. *)
NextAppend == \E k \in Values : (k = 1 \/ size < MaxLen) /\ sc_array_add(k)

SpecAppend == InitGrow /\ [][NextAppend]_vars

(* A caller that stores any values, holds at most MaxLen of them, sorts    *)
(* the array whenever it holds an element, and pops.                       *)
NextSort ==
    \/ \E k \in Values : size < MaxLen /\ sc_array_add(k)
    \/ \E cmp \in Comparators : size > 0 /\ sc_array_sort(cmp)
    \/ sc_array_del_last
    \/ sc_array_term

SpecSort == Init /\ [][NextSort]_vars

(* A caller that creates the array once and then uses every operation. *)
NextLife ==
    \/ sc_array_add(1)
    \/ (\E cmp \in Comparators : sc_array_sort(cmp))
    \/ Others

SpecLife == InitGrow /\ [][NextLife]_vars

TypeOK ==
    /\ oom \in BOOLEAN /\ crashed \in BOOLEAN /\ dfree \in BOOLEAN
    /\ cap \in 0..SIZE_MAX /\ size \in 0..SIZE_MAX
    /\ elems \in Blocks \cup {NULL}
    /\ live \subseteq Blocks

----------------------------------------------------------------------------
(* Helpers of the properties. *)
Prefix(b, n) == [j \in 1..n |-> b[j]]
RemoveAt(s, i) == [j \in 1..(Len(s) - 1) |-> IF j <= i THEN s[j] ELSE s[j + 1]]
Count(s, v) == Cardinality({j \in 1..Len(s) : s[j] = v})
ArrayMaxElems == array_max \div ElemSize

RECURSIVE SmallestCap(_, _)
SmallestCap(c, n) == IF c >= n THEN c ELSE SmallestCap(2 * c, n)

RECURSIVE Log2(_)
Log2(x) == IF x <= 1 THEN 0 ELSE 1 + Log2(x \div 2)

AddFailed ==
    last'.op = "add" /\ ~last'.ok /\ \E k \in Values : sc_array_add(k)
AddStored(k) ==
    last'.op = "add" /\ last'.ok /\ ~crashed' /\ sc_array_add(k)
AddStep(k) == last'.op = "add" /\ sc_array_add(k)
DelStep(i) == last'.op = "del" /\ sc_array_del(i)
DelUnorderedStep(i) == last'.op = "del_unordered" /\ sc_array_del_unordered(i)
ForeachStep == last'.op = "foreach" /\ sc_array_foreach
ClearStep == last'.op = "clear" /\ sc_array_clear

(* C1: an sc_array_add that fails, by the capacity limit or by realloc     *)
(* returning NULL, leaves size, cap, the buffer and its contents as they   *)
(* were, stores nothing and leaves the flag oom true.                      *)
C1_AppendFailureAtomic ==
    [][AddFailed => /\ size' = size /\ cap' = cap
                    /\ elems' = elems /\ live' = live
                    /\ buf' = buf
                    /\ oom' = TRUE]_vars

C1_Witness ==
    /\ last.op = "add" /\ ~last.ok /\ last.req = 16
    /\ oom /\ size = 8 /\ cap = 8 /\ Prefix(buf, 8) = [j \in 1..8 |-> 1]

(* C2 (I1): in every state reached by add, del, del_unordered, del_last,   *)
(* clear, sort, foreach and term, 0 <= size <= cap.                        *)
C2_SizeWithinCap == 0 <= size /\ size <= cap

C2_Witness ==
    /\ last.op = "add" /\ ~last.ok /\ size = cap /\ cap = 32

(* C3: an add with size < cap asks the allocator for nothing and leaves    *)
(* cap; an add with size = cap, cap <= MAX/2 and a successful allocation   *)
(* sets cap to 8 from 0 and to 2*cap otherwise, and asks for exactly that  *)
(* many slots.                                                             *)
C3_GrowthStep ==
    [][\A k \in Values : AddStep(k) =>
         /\ size < cap => (last'.req = 0 /\ cap' = cap)
         /\ (size = cap /\ 2 * cap <= ArrayMaxElems /\ last'.ok) =>
                /\ cap' = IF cap = 0 THEN 8 ELSE 2 * cap
                /\ last'.req = cap']_vars

C3_Witness ==
    /\ last.op = "add" /\ last.ok /\ last.req = 32 /\ cap = 32 /\ size = 17

(* C4: after n >= 1 successful appends to a fresh array, and only appends, *)
(* cap is the smallest of 8, 16, 32, ... that is >= n, log2(cap/8)+1       *)
(* resizes were made, every resize at least doubled the capacity (the      *)
(* first set it to 8); 9 appends give the capacities 0, 8, 16 and size 9,  *)
(* and the flag is false after each successful append.                     *)
C4_AmortizedGrowth ==
    (hist.on /\ Len(hist.adds) >= 1) =>
        LET n == Len(hist.adds)
            cs == hist.caps
        IN  /\ size = n
            /\ cap = SmallestCap(8, n)
            /\ hist.resizes = Log2(cap \div 8) + 1
            /\ Len(cs) = hist.resizes + 1
            /\ cs[1] = 0 /\ cs[2] = 8
            /\ \A j \in 2..(Len(cs) - 1) : cs[j + 1] >= 2 * cs[j]
            /\ cs[Len(cs)] = cap
            /\ n = 9 => cs = <<0, 8, 16>>
            /\ (last.op = "add" /\ last.ok) => ~oom

C4_Witness ==
    /\ hist.on /\ Len(hist.adds) = 9 /\ hist.caps = <<0, 8, 16>>
    /\ size = 9 /\ cap = 16 /\ ~oom /\ hist.resizes = 2

(* C5: a successful add of k writes k into slot size, adds one to size,    *)
(* clears the flag and leaves the slots below as they were; so appending   *)
(* e0..ek to a fresh array and traversing it with sc_array_foreach visits  *)
(* exactly e0..ek in order, and the traversal leaves size, cap and the     *)
(* flag alone and visits nothing when size is 0.                           *)
C5_AppendRoundTrip ==
    [][/\ \A k \in Values : AddStored(k) =>
            /\ buf'[size + 1] = k
            /\ size' = size + 1
            /\ oom' = FALSE
            /\ Prefix(buf', size) = Prefix(buf, size)
       /\ ForeachStep =>
            /\ UNCHANGED <<size, cap, oom, elems, buf>>
            /\ Len(last'.out) = size
            /\ hist.on => last'.out = hist.adds]_vars

C5_Witness ==
    /\ hist.on /\ last.op = "foreach"
    /\ last.out = <<0, 1, 1, 0, 1>> /\ hist.adds = <<0, 1, 1, 0, 1>>

(* C6: the flag is changed only by add (true on failure, false on          *)
(* success, with or without growth) and by clear, init and term (false);   *)
(* del, del_unordered, del_last, sort and foreach leave it as it was.      *)
C6_FlagFrame ==
    [][/\ last'.op = "add" => oom' = ~last'.ok
       /\ last'.op \in {"clear", "init", "term"} => oom' = FALSE
       /\ last'.op \in {"del", "del_unordered", "del_last", "sort", "foreach"}
            => oom' = oom
       /\ oom' # oom => last'.op \in {"add", "clear", "init", "term"}]_vars

C6_Witness ==
    /\ oom /\ last.op = "del" /\ size = 15 /\ cap = 16

(* C7, as stated: while the flag is true, the operation executed last was  *)
(* an add that failed.                                                     *)
C7_FlagImpliesFailedAddWasLast ==
    oom => (last.op = "add" /\ ~last.ok)

(* C7, amended: while the flag is true, the most recent sc_array_add       *)
(* failed and no init, clear or term was executed since; deletes, sorts    *)
(* and traversals may have been.                                           *)
C7_FlagImpliesLastAddFailed ==
    oom => lastAdd = "fail"

C7_Witness ==
    /\ oom /\ lastAdd = "fail" /\ last.op = "del_last" /\ size = 7

(* C8: sc_array_del(a, i) of [a0..a(n-1)], i < n, leaves                   *)
(* [a0..a(i-1), a(i+1)..a(n-1)] in order with size n-1, and leaves cap,    *)
(* the buffer and the flag as they were.                                   *)
C8_OrderedDelete ==
    [][\A i \in 0..(size - 1) : DelStep(i) =>
         /\ size' = size - 1
         /\ Prefix(buf', size') = RemoveAt(Prefix(buf, size), i)
         /\ Len(buf') = Len(buf)
         /\ UNCHANGED <<cap, elems, live, oom>>]_vars

C8_Witness ==
    /\ last.op = "del" /\ size = 4 /\ Prefix(buf, 5) = <<0, 1, 0, 1, 1>>

(* C9: sc_array_del_unordered(a, i), i < n, makes size n-1; for i < n-1    *)
(* slot i then holds the former last element, the other slots below n-1    *)
(* are as they were and the elements are the former ones less a(i); for    *)
(* i = n-1 the result is that of sc_array_del_last; cap and the flag are   *)
(* as they were.                                                           *)
C9_UnorderedDelete ==
    [][\A i \in 0..(size - 1) : DelUnorderedStep(i) =>
         /\ size' = size - 1
         /\ i < size - 1 =>
              /\ buf'[i + 1] = buf[size]
              /\ \A j \in 1..size' : j # i + 1 => buf'[j] = buf[j]
              /\ \A v \in Values :
                   Count(Prefix(buf', size'), v) =
                   Count(Prefix(buf, size), v) - (IF buf[i + 1] = v THEN 1 ELSE 0)
         /\ i = size - 1 => buf' = buf
         /\ UNCHANGED <<cap, elems, live, oom>>]_vars

C9_Witness ==
    /\ last.op = "del_unordered" /\ size = 4 /\ Prefix(buf, 5) = <<0, 1, 0, 0, 1>>

(* C10: sc_array_clear leaves size 0, cap 0 and the flag false and does    *)
(* not release the buffer; the appends that follow give, with the same     *)
(* allocator outcomes, the size, cap, flag and requested slots (8, 16,     *)
(* 32, ...) that they give on a freshly initialised array.                 *)
C10_ClearThenReuse ==
    [][/\ ClearStep =>
            /\ size' = 0 /\ cap' = 0 /\ oom' = FALSE
            /\ elems' = elems /\ live' = live /\ buf' = buf
       /\ twin'.on =>
            /\ twin'.w.size = size' /\ twin'.w.cap = cap' /\ twin'.w.oom = oom'
            /\ last'.op = "add" => twin'.req = last'.req]_vars

C10_Witness ==
    /\ twin.on /\ last.op = "add" /\ last.ok /\ last.req = 32
    /\ cap = 32 /\ twin.w.cap = 32 /\ size = 17 /\ Len(buf) = 32

TermStep == last'.op = "term" /\ sc_array_term

\* C11: sc_array_term, called in any reachable state (after a failed add,
\* after a clear, with or without a buffer), leaves the array equal field by
\* field to a freshly initialised one: cap 0, size 0, flag false, elems NULL,
\* no slots; the block it owned is no longer live.  Every operation reads
\* only these fields, so what follows behaves as on a fresh array.
C11_TermResetsToCreated ==
    [][TermStep =>
         /\ cap' = 0 /\ size' = 0 /\ oom' = FALSE /\ elems' = NULL
         /\ World' = Fresh(live')
         /\ (elems # NULL => elems \notin live')
         /\ hist' = HistNew]_vars

C11_Witness ==
    /\ last.op = "term"
    /\ World = Fresh({})
    /\ ~dfree /\ ~crashed
    /\ array_max = LowArrayMax

GrownCap(c) == IF c = 0 THEN InitialCap ELSE 2 * c

\* C12 as stated: cap changes only by the growth policy inside a successful
\* sc_array_add, and never decreases in a step other than sc_array_term,
\* which sets it to 0 (sc_array_init, which creates the array anew, is left
\* aside here).
C12_CapShrinksOnlyOnTerm ==
    [][(cap' # cap /\ last'.op # "init") =>
         \/ last'.op = "add" /\ last'.ok /\ cap' = GrownCap(cap)
         \/ last'.op = "term" /\ cap' = 0]_vars

\* C12 amended: cap changes only by the growth policy inside a successful
\* sc_array_add (0 to 8, otherwise doubling), or to 0 in sc_array_term,
\* sc_array_clear or sc_array_init; no other step changes it, and no step
\* lowers it to a value other than 0.
C12_CapShrinksOnlyToZero ==
    [][cap' # cap =>
         \/ last'.op = "add" /\ last'.ok /\ cap' = GrownCap(cap) /\ cap' > cap
         \/ last'.op \in {"term", "clear", "init"} /\ cap' = 0]_vars

C12_Witness ==
    /\ last.op = "clear"
    /\ cap = 0 /\ size = 0
    /\ Len(buf) = 4 * InitialCap
    /\ elems \in live

\* C13 as stated: in every reachable state, cap = 0 implies that elems is
\* NULL and the array owns no allocation.
C13_ZeroCapMeansNoBuffer ==
    cap = 0 => (elems = NULL /\ buf = <<>>)

\* C13 amended: cap = 0 implies size = 0; after sc_array_init and
\* sc_array_term elems is NULL; a state with cap = 0 in which the array
\* still holds a buffer is entered only by sc_array_clear, the buffer is
\* then live and owned, and elems stays the same for as long as cap stays 0.
C13_ZeroCapBufferOnlyAfterClear ==
    [][/\ (cap' = 0 => size' = 0)
       /\ (last'.op \in {"init", "term"} => elems' = NULL /\ buf' = <<>>)
       /\ (cap' = 0 /\ elems' # NULL) =>
              /\ elems' \in live'
              /\ \/ last'.op = "clear" /\ elems' = elems
                 \/ cap = 0 /\ elems' = elems]_vars

C13_Witness ==
    /\ last.op = "foreach"
    /\ cap = 0 /\ size = 0
    /\ elems # NULL /\ elems \in live
    /\ Len(buf) = 2 * InitialCap

\* C14: an sc_array_add that needs growth while cap exceeds half of the
\* element limit SC_ARRAY_MAX / sizeof is refused before realloc is asked
\* for anything (flag set, nothing else changed), and in every build,
\* whatever its SC_ARRAY_MAX, cap never exceeds the element limit.
C14_CapacityLimit ==
    [][/\ (AddStep(1) /\ cap = size /\ cap > ArrayMaxElems \div 2) =>
              /\ ~last'.ok /\ last'.req = 0 /\ oom'
              /\ UNCHANGED <<cap, size, elems, buf, live>>
       /\ cap' <= ArrayMaxElems]_vars

\* C15: along every sequence consisting only of sc_array_add calls, starting
\* from a freshly initialised array, cap never decreases from one step to
\* the next (failed adds included) and cap >= size holds at every step.
C15_CapMonotonicUnderAppends ==
    [][/\ cap' >= cap
       /\ cap >= size
       /\ cap' >= size']_vars

C15_Witness ==
    /\ last.op = "add" /\ ~last.ok
    /\ hist.on /\ hist.resizes = 3
    /\ size = 4 * InitialCap /\ cap = size

DelLastStep == last'.op = "del_last" /\ sc_array_del_last

\* C16: on an array with size # 0, sc_array_del_last lowers size by exactly
\* one and changes nothing else: cap, the buffer and every slot of it (the
\* popped one included), the flag and the live blocks are as before, and
\* realloc is not called.
C16_PopLastFrame ==
    [][DelLastStep =>
         /\ size # 0 /\ size' = size - 1
         /\ Prefix(buf', size') = Prefix(buf, size - 1)
         /\ last'.req = 0
         /\ UNCHANGED <<cap, elems, buf, oom, live, crashed, dfree>>]_vars

C16_Witness ==
    /\ last.op = "del_last"
    /\ size = InitialCap - 1 /\ cap = InitialCap
    /\ buf[InitialCap] = 1
    /\ oom

SortStep(cmp) == last'.op = "sort" /\ sc_array_sort(cmp)
IsOrdered(s, cmp) == \A j \in 1..(Len(s) - 1) : Cmp(cmp, s[j], s[j + 1]) <= 0

\* C17: for every array and every three-way comparator, sc_array_sort
\* reorders in place the first size elements, each element being one unit:
\* the result is a permutation of them that the comparator orders, the
\* slots beyond size are untouched, and size, cap, the flag and the buffer's
\* identity are unchanged.
C17_SortOrdersElements ==
    [][\A cmp \in Comparators : SortStep(cmp) =>
         /\ ~crashed'
         /\ Len(buf') = Len(buf)
         /\ IsOrdered(Prefix(buf', size), cmp)
         /\ \A v \in Values \cup {U} :
              Count(Prefix(buf', size), v) = Count(Prefix(buf, size), v)
         /\ \A j \in (size + 1)..Len(buf) : buf'[j] = buf[j]
         /\ UNCHANGED <<size, cap, oom, elems, live>>]_vars

\* C18: in every reachable state the buffer has at least cap slots and
\* cap >= size; the byte count cap_new * sizeof(element) an add passes to
\* realloc does not wrap modulo 2^SizeBits when SC_ARRAY_MAX <= SIZE_MAX;
\* and the store elems[size] of every successful add (the first add after a
\* clear included) lands inside the buffer.
C18_NoUnderAllocation ==
    [][/\ (AddStep(1) /\ last'.ok /\ NeedsRealloc(World) /\ array_max <= SIZE_MAX) =>
              GrownCap(cap) * ElemSize <= SIZE_MAX
       /\ (AddStep(1) /\ last'.ok) => ~crashed'
       /\ Len(buf') >= cap'
       /\ cap' >= size']_vars

\* C19: for an array created once, in every reachable state at most one
\* block is live and it is the one elems points to; a failed realloc keeps
\* the old block live and owned; a realloc that moves the data frees the old
\* block; after sc_array_term, whatever came before (clear, failed adds, an
\* earlier term), no block is live; and no block is ever freed twice.
C19_BufferReleasedOnce ==
    [][/\ live' \subseteq {elems'}
       /\ (elems' # NULL => elems' \in live')
       /\ ~dfree'
       /\ (last'.op = "term" => live' = {} /\ elems' = NULL)
       /\ (last'.op = "add" /\ ~last'.ok) => UNCHANGED <<elems, live>>
       /\ (last'.op = "add" /\ elems' # elems) => elems \notin live']_vars

C19_Witness ==
    /\ last.op = "term"
    /\ live = {} /\ elems = NULL
    /\ ~dfree /\ ~crashed
    /\ array_max = SIZE_MAX

\* C20: in every reachable state, after any sequence of operations (clear
\* and term followed by reuse included), the recorded capacity is 0 or
\* 8 * 2^k for some k >= 0.
C20_ReachableCapacities ==
    \/ cap = 0
    \/ \E k \in 0..SizeBits : cap = InitialCap * 2^k

C20_Witness ==
    /\ twin.on
    /\ cap = 2 * InitialCap
    /\ size = InitialCap + 1
    /\ Len(buf) = cap

====
